---------------------------- MODULE Spec2Model ----------------------------
(***************************************************************************)
(* A model of the rolling CRC-32 crate: the table builders and the fold of *)
(* src/src/rollcrc.rs, the context, the engine and the two stream adapters *)
(* of src/src/lib.rs.                                                      *)
(*                                                                         *)
(* A u32 is the tuple <<b3, b2, b1, b0>> of its four bytes, most           *)
(* significant first, so 0x0d4a1185 is <<13, 74, 17, 133>>: the bitwise    *)
(* operators of the code act on it byte by byte and no value leaves the    *)
(* 32 bits of the code's type.  An Option is a sequence of length 0 (None) *)
(* or 1 (Some).                                                            *)
(***************************************************************************)
EXTENDS Integers, Sequences, FiniteSets, TLC

(***************************************************************************)
(* Bounds of the exploration.                                              *)
(***************************************************************************)
\* Longest generated source stream.
MaxLen == 4
\* Largest generated window size.
MaxWindow == 3

(***************************************************************************)
(* Bit operators of u32 and u8.                                            *)
(***************************************************************************)
Byte == 0..255

RECURSIVE XorBits(_, _, _)
\* XOR of two naturals below 2^n, bit by bit.
XorBits(a, b, n) ==
    IF n = 0 THEN 0
    ELSE ((a + b) % 2) + 2 * XorBits(a \div 2, b \div 2, n - 1)

RECURSIVE AndBits(_, _, _)
\* AND of two naturals below 2^n, bit by bit.
AndBits(a, b, n) ==
    IF n = 0 THEN 0
    ELSE ((a % 2) * (b % 2)) + 2 * AndBits(a \div 2, b \div 2, n - 1)

\* The 16 x 16 tables of the two operators on half bytes.
Xor4 == [a \in 0..15 |-> [b \in 0..15 |-> XorBits(a, b, 4)]]
And4 == [a \in 0..15 |-> [b \in 0..15 |-> AndBits(a, b, 4)]]

\* u8 ^ u8
Xor8(a, b) == 16 * Xor4[a \div 16][b \div 16] + Xor4[a % 16][b % 16]
\* u8 & u8
And8(a, b) == 16 * And4[a \div 16][b \div 16] + And4[a % 16][b % 16]

\* u32 ^ u32
Xor32(a, b) ==
    CHOOSE r \in {<<Xor8(p[1][1], p[2][1]), Xor8(p[1][2], p[2][2]),
                    Xor8(p[1][3], p[2][3]), Xor8(p[1][4], p[2][4])>> :
                  p \in {<<a, b>>}} : TRUE
\* u32 & u32
And32(a, b) ==
    CHOOSE r \in {<<And8(p[1][1], p[2][1]), And8(p[1][2], p[2][2]),
                    And8(p[1][3], p[2][3]), And8(p[1][4], p[2][4])>> :
                  p \in {<<a, b>>}} : TRUE
\* !u32
Not32(a) == <<255 - a[1], 255 - a[2], 255 - a[3], 255 - a[4]>>
\* u32 >> 8
Shr8(a) == <<0, a[1], a[2], a[3]>>
\* u32 >> 1
Shr1(a) == <<a[1] \div 2,
             128 * (a[1] % 2) + (a[2] \div 2),
             128 * (a[2] % 2) + (a[3] \div 2),
             128 * (a[3] % 2) + (a[4] \div 2)>>
\* c as u32
U32OfByte(c) == <<0, 0, 0, c>>
\* (u32 & 0xff) as usize
LowByte(a) == And32(a, <<0, 0, 0, 255>>)[4]
\* u32::wrapping_sub(a, 1)
WrappingSub1(a) ==
    IF a[4] > 0 THEN <<a[1], a[2], a[3], a[4] - 1>>
    ELSE IF a[3] > 0 THEN <<a[1], a[2], a[3] - 1, 255>>
    ELSE IF a[2] > 0 THEN <<a[1], a[2] - 1, 255, 255>>
    ELSE IF a[1] > 0 THEN <<a[1] - 1, 255, 255, 255>>
    ELSE <<255, 255, 255, 255>>

(***************************************************************************)
(* src/src/rollcrc.rs                                                      *)
(***************************************************************************)
\* A CRCTable, [u32; 256]: the function f as an array holding its 256 values
\* (f itself, entry for entry, no longer a rule to compute them).
CRCTable(f) == f @@ <<>>

\* 0xEDB88320
POLY_CRC == <<237, 184, 131, 32>>
\* !0
INIT_CRC == Not32(<<0, 0, 0, 0>>)

\* update_crc with `&` where the code has `^` between the table entry and the
\* shifted accumulator.
update_crc_and(crc, crc_table, c) ==
    And32(crc_table[LowByte(Xor32(crc, U32OfByte(c)))], Shr8(crc))

update_crc(crc, crc_table, c) ==
    Xor32(crc_table[LowByte(Xor32(crc, U32OfByte(c)))], Shr8(crc))

finish_crc(crc) == Xor32(crc, INIT_CRC)

RECURSIVE calc_crc_loop(_, _, _, _, _)
\* `for c in buf { crc = update_crc(crc, crc_table, *c) }` over the bytes
\* buf[lo] .. buf[hi], in order.  The run of updates is evaluated as its first
\* half, whose result crc1 is bound once (as the element of a one-element set),
\* followed by its second half: that keeps the evaluation shallow.
calc_crc_loop(crc, buf, lo, hi, crc_table) ==
    IF lo > hi THEN crc
    ELSE IF lo = hi THEN update_crc(crc, crc_table, buf[lo])
    ELSE CHOOSE r \in
             {calc_crc_loop(crc1, buf, ((lo + hi) \div 2) + 1, hi, crc_table) :
                 crc1 \in {calc_crc_loop(crc, buf, lo, (lo + hi) \div 2, crc_table)}} :
             TRUE

\* calc_crc without its closing finish_crc.
calc_crc_no_finish(buf, crc_table) ==
    calc_crc_loop(INIT_CRC, buf, 1, Len(buf), crc_table)

\* calc_crc
calc_crc(buf, crc_table) ==
    finish_crc(calc_crc_loop(INIT_CRC, buf, 1, Len(buf), crc_table))

\* One shift-and-conditional-XOR step: (r >> 1) ^ (POLY_CRC & !(r & 1).wrapping_sub(1))
crc_step(r) ==
    Xor32(Shr1(r),
          And32(POLY_CRC, Not32(WrappingSub1(And32(r, <<0, 0, 0, 1>>)))))

RECURSIVE make_crc_table_halving(_, _, _)
\* The first while loop of make_crc_table: i = 64, 32, ..., 1.  (r2 and the
\* table written are bound once, as the element of a one-element set.)
make_crc_table_halving(crc_table, r, i) ==
    IF i > 0
    THEN CHOOSE t \in {make_crc_table_halving(
                          CRCTable([crc_table EXCEPT ![i] = r2]), r2, i \div 2) :
                       r2 \in {crc_step(r)}} : TRUE
    ELSE crc_table

\* An inner loop that begins at j = 2: the entry i+1 is left as it was.
make_crc_table_inner_from_two(crc_table, i) ==
    CRCTable([k \in DOMAIN crc_table |->
                IF i + 1 < k /\ k < 2 * i
                THEN Xor32(crc_table[i], crc_table[k - i])
                ELSE crc_table[k]])

\* for j in 1..i { crc_table[i+j] = crc_table[i] ^ crc_table[j] }: the entries
\* written, i+1 .. 2i-1, are none of the entries read, i and 1 .. i-1.
make_crc_table_inner(crc_table, i) ==
    CRCTable([k \in DOMAIN crc_table |->
                IF i < k /\ k < 2 * i
                THEN Xor32(crc_table[i], crc_table[k - i])
                ELSE crc_table[k]])

RECURSIVE make_crc_table_doubling(_, _)
\* The second while loop of make_crc_table: i = 2, 4, ..., 128.
make_crc_table_doubling(crc_table, i) ==
    IF i < 256
    THEN CHOOSE t \in {make_crc_table_doubling(t1, 2 * i) :
                       t1 \in {make_crc_table_inner(crc_table, i)}} : TRUE
    ELSE crc_table

make_crc_table(crc_table, seed) ==
    make_crc_table_doubling(
        make_crc_table_halving(
            CRCTable([crc_table EXCEPT ![0] = <<0, 0, 0, 0>>, ![128] = seed]),
            seed, 64),
        2)

\* The two message folds of make_rolling_crc_table_slow after their first byte:
\* `for _ in 0..winsize-1 { x = update_crc(x, 0); y = update_crc(y, 0) }`, n
\* rounds on the pair <<x, y>>, evaluated as the first half of the rounds, whose
\* result is bound once, followed by the second half.
RECURSIVE rolling_zero_loop(_, _, _)
rolling_zero_loop(xy, n, crc_table) ==
    IF n = 0 THEN xy
    ELSE IF n = 1
    THEN <<update_crc(xy[1], crc_table, 0), update_crc(xy[2], crc_table, 0)>>
    ELSE CHOOSE r \in
             {rolling_zero_loop(xy1, n - (n \div 2), crc_table) :
                 xy1 \in {rolling_zero_loop(xy, n \div 2, crc_table)}} : TRUE

\* The panic of a usize subtraction below zero.
SubtractOverflow == "attempt to subtract with overflow"
\* What a table builder that panicked hands back: no table.
NoTable == <<>>

\* A builder without the last `x = update_crc(x, crc_table, 0)`: its x is one
\* zero byte short.
make_rolling_crc_table_slow_short_x(winsize, crc_table, rolling_crc_table) ==
    IF winsize - 1 < 0 THEN NoTable
    ELSE CRCTable([c \in DOMAIN rolling_crc_table |->
            LET x0 == update_crc(INIT_CRC, crc_table, c)
                y0 == update_crc(INIT_CRC, crc_table, 0)
                xy == rolling_zero_loop(<<x0, y0>>, winsize - 1, crc_table)
            IN  Xor32(xy[1], xy[2])])

\* A builder whose y takes the last zero update too: x and y are folds of
\* equal length, winsize + 1 bytes.
make_rolling_crc_table_slow_long_y(winsize, crc_table, rolling_crc_table) ==
    IF winsize - 1 < 0 THEN NoTable
    ELSE CRCTable([c \in DOMAIN rolling_crc_table |->
            LET x0 == update_crc(INIT_CRC, crc_table, c)
                y0 == update_crc(INIT_CRC, crc_table, 0)
                xy == rolling_zero_loop(<<x0, y0>>, winsize - 1, crc_table)
                x  == update_crc(xy[1], crc_table, 0)
                y  == update_crc(xy[2], crc_table, 0)
            IN  Xor32(x, y)])

\* At winsize = 0 the range 0..winsize-1 subtracts below zero: a panic where
\* overflow is checked, a loop of usize::MAX rounds where it wraps.  Either way
\* the builder does not come back with a table.
make_rolling_crc_table_slow(winsize, crc_table, rolling_crc_table) ==
    IF winsize - 1 < 0 THEN NoTable
    ELSE CRCTable([c \in DOMAIN rolling_crc_table |->
            LET x0 == update_crc(INIT_CRC, crc_table, c)
                y0 == update_crc(INIT_CRC, crc_table, 0)
                xy == rolling_zero_loop(<<x0, y0>>, winsize - 1, crc_table)
                x  == update_crc(xy[1], crc_table, 0)
            IN  Xor32(x, xy[2])])

\* INIT_CRC is !0, so the slow builder is the one that runs.
make_rolling_crc_table(winsize, crc_table, rolling_crc_table) ==
    make_rolling_crc_table_slow(winsize, crc_table, rolling_crc_table)

(***************************************************************************)
(* src/src/lib.rs                                                          *)
(***************************************************************************)
\* [0; 256]
ZeroTable == CRCTable([c \in Byte |-> <<0, 0, 0, 0>>])

\* The lazy static: the base table, built at first use and never written again.
CRC_TABLE == make_crc_table(ZeroTable, POLY_CRC)

\* The window sizes of the doc tests, the examples and the tests: 2 (push),
\* 3 (basic.rs), 4 (test_iterator_index), 5 (iter), and the length of
\* b"hello world".
DocWindows == {2, 3, 4, 5, 11}

WindowSizes == (0..MaxWindow) \cup DocWindows

\* The call make_rolling_crc_table(window_size, &crc_table, &mut rolling_crc_table)
\* of RollingCRCContext::new, for each window size of the exploration: the
\* builder is a function of the window size alone, and its table is computed
\* once for each.
RollingTableOf ==
    [window_size \in WindowSizes |->
        make_rolling_crc_table(window_size, CRC_TABLE, ZeroTable)] @@ <<>>

None == <<>>
Some(v) == <<v>>
NoPanic == "none"

\* RollingCRCContext::new without its `if window_size >= 1`: the builder is
\* called for every window size.
RollingCRCContext_new_always_build(window_size) ==
    [window_size |-> window_size,
     rolling_crc_table |-> RollingTableOf[window_size]]

\* RollingCRCContext::new.  The field crc_table is the reference &CRC_TABLE and
\* is read through CRC_TABLE.
RollingCRCContext_new(window_size) ==
    [window_size |-> window_size,
     rolling_crc_table |->
        IF window_size >= 1
        THEN RollingTableOf[window_size]
        ELSE ZeroTable]

\* RollingCRCContext::crc
RollingCRCContext_crc(ctx, bytes) == calc_crc(bytes, CRC_TABLE)

\* RollingCRC::new
RollingCRC_new ==
    [count |-> 0, bytes |-> <<>>, index |-> 0, last_crc |-> None]

\* What a call of push or next leaves: the engine, the value returned and
\* the panic that ended the call, if one did.
Outcome(rc, ret, panic) == [rolling_crc |-> rc, ret |-> ret, panic |-> panic]

\* push_roll with `self.index += 1` and its wrap left out: the cursor stays on
\* slot 0.
push_roll_stale_index(self, ctx, byte) ==
    IF ctx.window_size # Len(self.bytes)
    THEN Outcome(self, None, "assertion failed: window_size == bytes.len()")
    ELSE IF self.index >= Len(self.bytes)
    THEN Outcome(self, None, "index out of bounds")
    ELSE IF self.last_crc = None
    THEN Outcome(self, None, "internal error: lost CRC")
    ELSE
      LET roll_out == self.bytes[self.index + 1]
          last_crc == self.last_crc[1]
          crc == Xor32(update_crc(last_crc, CRC_TABLE, byte),
                       ctx.rolling_crc_table[roll_out])
      IN  Outcome([self EXCEPT !.bytes[self.index + 1] = byte,
                               !.last_crc = Some(crc)],
                  Some(finish_crc(crc)), NoPanic)

\* push_roll without the rolling table's correction for the byte rolled out.
push_roll_no_roll_out(self, ctx, byte) ==
    IF ctx.window_size # Len(self.bytes)
    THEN Outcome(self, None, "assertion failed: window_size == bytes.len()")
    ELSE IF self.index >= Len(self.bytes)
    THEN Outcome(self, None, "index out of bounds")
    ELSE IF self.last_crc = None
    THEN Outcome(self, None, "internal error: lost CRC")
    ELSE
      LET last_crc == self.last_crc[1]
          crc == update_crc(last_crc, CRC_TABLE, byte)
          index1 == self.index + 1
      IN  Outcome([self EXCEPT !.bytes[self.index + 1] = byte,
                               !.index = IF index1 >= ctx.window_size
                                         THEN 0 ELSE index1,
                               !.last_crc = Some(crc)],
                  Some(finish_crc(crc)), NoPanic)

\* push_roll without `if self.index >= self.context.window_size { self.index = 0 }`.
push_roll_no_wrap(self, ctx, byte) ==
    IF ctx.window_size # Len(self.bytes)
    THEN Outcome(self, None, "assertion failed: window_size == bytes.len()")
    ELSE IF self.index >= Len(self.bytes)
    THEN Outcome(self, None, "index out of bounds")
    ELSE IF self.last_crc = None
    THEN Outcome(self, None, "internal error: lost CRC")
    ELSE
      LET roll_out == self.bytes[self.index + 1]
          last_crc == self.last_crc[1]
          crc == Xor32(update_crc(last_crc, CRC_TABLE, byte),
                       ctx.rolling_crc_table[roll_out])
      IN  Outcome([self EXCEPT !.bytes[self.index + 1] = byte,
                               !.index = self.index + 1,
                               !.last_crc = Some(crc)],
                  Some(finish_crc(crc)), NoPanic)

\* push_roll storing the byte after the cursor has moved: the byte lands on
\* the slot after the oldest one.
push_roll_writes_after_advance(self, ctx, byte) ==
    IF ctx.window_size # Len(self.bytes)
    THEN Outcome(self, None, "assertion failed: window_size == bytes.len()")
    ELSE IF self.index >= Len(self.bytes)
    THEN Outcome(self, None, "index out of bounds")
    ELSE IF self.last_crc = None
    THEN Outcome(self, None, "internal error: lost CRC")
    ELSE
      LET roll_out == self.bytes[self.index + 1]
          last_crc == self.last_crc[1]
          crc == Xor32(update_crc(last_crc, CRC_TABLE, byte),
                       ctx.rolling_crc_table[roll_out])
          index1 == self.index + 1
          index2 == IF index1 >= ctx.window_size THEN 0 ELSE index1
      IN  Outcome([self EXCEPT !.bytes[index2 + 1] = byte,
                               !.index = index2,
                               !.last_crc = Some(crc)],
                  Some(finish_crc(crc)), NoPanic)

\* push_roll returning the open CRC it stores, not its closed form.
push_roll_returns_open(self, ctx, byte) ==
    IF ctx.window_size # Len(self.bytes)
    THEN Outcome(self, None, "assertion failed: window_size == bytes.len()")
    ELSE IF self.index >= Len(self.bytes)
    THEN Outcome(self, None, "index out of bounds")
    ELSE IF self.last_crc = None
    THEN Outcome(self, None, "internal error: lost CRC")
    ELSE
      LET roll_out == self.bytes[self.index + 1]
          last_crc == self.last_crc[1]
          crc == Xor32(update_crc(last_crc, CRC_TABLE, byte),
                       ctx.rolling_crc_table[roll_out])
          index1 == self.index + 1
      IN  Outcome([self EXCEPT !.bytes[self.index + 1] = byte,
                               !.index = IF index1 >= ctx.window_size
                                         THEN 0 ELSE index1,
                               !.last_crc = Some(crc)],
                  Some(crc), NoPanic)

\* push_roll without `self.last_crc = Some(crc)`: the next push rolls on from
\* a CRC that is one window old.
push_roll_keeps_last_crc(self, ctx, byte) ==
    IF ctx.window_size # Len(self.bytes)
    THEN Outcome(self, None, "assertion failed: window_size == bytes.len()")
    ELSE IF self.index >= Len(self.bytes)
    THEN Outcome(self, None, "index out of bounds")
    ELSE IF self.last_crc = None
    THEN Outcome(self, None, "internal error: lost CRC")
    ELSE
      LET roll_out == self.bytes[self.index + 1]
          last_crc == self.last_crc[1]
          crc == Xor32(update_crc(last_crc, CRC_TABLE, byte),
                       ctx.rolling_crc_table[roll_out])
          index1 == self.index + 1
      IN  Outcome([self EXCEPT !.bytes[self.index + 1] = byte,
                               !.index = IF index1 >= ctx.window_size
                                         THEN 0 ELSE index1],
                  Some(finish_crc(crc)), NoPanic)

\* The Rolling branch of push, lines 165-177.  index counts from 0 as in the
\* code; bytes is a sequence, so its slot index is bytes[index + 1].
push_roll(self, ctx, byte) ==
    IF ctx.window_size # Len(self.bytes)
    THEN Outcome(self, None, "assertion failed: window_size == bytes.len()")
    ELSE IF self.index >= Len(self.bytes)
    THEN Outcome(self, None, "index out of bounds")
    ELSE IF self.last_crc = None
    THEN Outcome(self, None, "internal error: lost CRC")
    ELSE
      LET roll_out == self.bytes[self.index + 1]
          last_crc == self.last_crc[1]
          crc == Xor32(update_crc(last_crc, CRC_TABLE, byte),
                       ctx.rolling_crc_table[roll_out])
          index1 == self.index + 1
      IN  Outcome([self EXCEPT !.bytes[self.index + 1] = byte,
                               !.index = IF index1 >= ctx.window_size
                                         THEN 0 ELSE index1,
                               !.last_crc = Some(crc)],
                  Some(finish_crc(crc)), NoPanic)

\* push_first_full storing the closed checksum where the open one belongs.
push_first_full_closed(self, ctx, byte) ==
    LET bytes == Append(self.bytes, byte)
        crc == RollingCRCContext_crc(ctx, bytes)
    IN  Outcome([self EXCEPT !.bytes = bytes, !.last_crc = Some(crc)],
                Some(crc), NoPanic)

\* push_first_full without `self.last_crc = Some(finish_crc(crc))`.
push_first_full_forgets_crc(self, ctx, byte) ==
    LET bytes == Append(self.bytes, byte)
        crc == RollingCRCContext_crc(ctx, bytes)
    IN  Outcome([self EXCEPT !.bytes = bytes], Some(crc), NoPanic)

\* The branch of push that completes the window, lines 159-164.
push_first_full(self, ctx, byte) ==
    LET bytes == Append(self.bytes, byte)
        crc == RollingCRCContext_crc(ctx, bytes)
    IN  Outcome([self EXCEPT !.bytes = bytes,
                             !.last_crc = Some(finish_crc(crc))],
                Some(crc), NoPanic)

\* push whose Filling branch returns without `self.bytes.push(byte)`.
push_fill_drops_byte(self0, ctx, byte) ==
    LET self == [self0 EXCEPT !.count = @ + 1]
    IN  IF ctx.window_size = 0
        THEN Outcome(self, None, NoPanic)
        ELSE IF self.count < ctx.window_size
        THEN Outcome(self, None, NoPanic)
        ELSE IF self.count = ctx.window_size
        THEN push_first_full(self, ctx, byte)
        ELSE push_roll(self, ctx, byte)

\* push whose Filling branch already stores an open CRC, that of the bytes
\* it holds.
push_fill_stores_crc(self0, ctx, byte) ==
    LET self == [self0 EXCEPT !.count = @ + 1]
    IN  IF ctx.window_size = 0
        THEN Outcome(self, None, NoPanic)
        ELSE IF self.count < ctx.window_size
        THEN Outcome([self EXCEPT
                        !.bytes = Append(@, byte),
                        !.last_crc = Some(finish_crc(
                            RollingCRCContext_crc(ctx, Append(self.bytes, byte))))],
                     None, NoPanic)
        ELSE IF self.count = ctx.window_size
        THEN push_first_full(self, ctx, byte)
        ELSE push_roll(self, ctx, byte)

\* push whose Filling branch hands out the checksum of the bytes it holds.
push_fill_returns_crc(self0, ctx, byte) ==
    LET self == [self0 EXCEPT !.count = @ + 1]
    IN  IF ctx.window_size = 0
        THEN Outcome(self, None, NoPanic)
        ELSE IF self.count < ctx.window_size
        THEN Outcome([self EXCEPT !.bytes = Append(@, byte)],
                     Some(RollingCRCContext_crc(ctx, Append(self.bytes, byte))),
                     NoPanic)
        ELSE IF self.count = ctx.window_size
        THEN push_first_full(self, ctx, byte)
        ELSE push_roll(self, ctx, byte)

\* push without its `if self.context.window_size == 0 { return None; }`.
push_no_zero_check(self0, ctx, byte) ==
    LET self == [self0 EXCEPT !.count = @ + 1]
    IN  IF self.count < ctx.window_size
        THEN Outcome([self EXCEPT !.bytes = Append(@, byte)], None, NoPanic)
        ELSE IF self.count = ctx.window_size
        THEN push_first_full(self, ctx, byte)
        ELSE push_roll(self, ctx, byte)

\* RollingCRC::push
push(self0, ctx, byte) ==
    LET self == [self0 EXCEPT !.count = @ + 1]
    IN  IF ctx.window_size = 0
        THEN Outcome(self, None, NoPanic)
        ELSE IF self.count < ctx.window_size
        THEN Outcome([self EXCEPT !.bytes = Append(@, byte)], None, NoPanic)
        ELSE IF self.count = ctx.window_size
        THEN push_first_full(self, ctx, byte)
        ELSE push_roll(self, ctx, byte)

(***************************************************************************)
(* Items of the byte sources and of the adapters' output.                  *)
(***************************************************************************)
\* Ok(byte) and Err(e) of a source of Result<u8, E>; a source of u8 holds
\* Ok items only.
OkByte(b) == [ok |-> TRUE, val |-> b]
ErrItem(e) == [ok |-> FALSE, val |-> e]
\* Ok((index, crc)) and Err(e) of the adapters' output.
OkPair(index, crc) == [ok |-> TRUE, index |-> index, crc |-> crc]
ErrOut(e) == [ok |-> FALSE, err |-> e]

\* What a call of an adapter's next leaves: the engine, the number of source
\* items consumed so far, the value returned and the panic, if any.
NextOutcome(rc, pos, ret, panic) ==
    [rolling_crc |-> rc, pos |-> pos, ret |-> ret, panic |-> panic]

\* emit with the position of the window's second byte.
emit_off_by_one(o, window_size, pos, wrap) ==
    NextOutcome(o.rolling_crc, pos,
                Some(IF wrap
                     THEN OkPair(o.rolling_crc.count - window_size + 1, o.ret[1])
                     ELSE <<o.rolling_crc.count - window_size + 1, o.ret[1]>>),
                NoPanic)

\* `let index = self.rolling_crc.count - window_size; return Some((index, crc))`
emit(o, window_size, pos, wrap) ==
    IF o.rolling_crc.count < window_size
    THEN NextOutcome(o.rolling_crc, pos, None, SubtractOverflow)
    ELSE NextOutcome(o.rolling_crc, pos,
                     Some(IF wrap
                          THEN OkPair(o.rolling_crc.count - window_size, o.ret[1])
                          ELSE <<o.rolling_crc.count - window_size, o.ret[1]>>),
                     NoPanic)

\* The state of a call of next between two rounds of its loop: the engine, the
\* number of source items taken, and, once the call has returned, that it has
\* and what (ret, panic).
Running(rc, pos) ==
    [rolling_crc |-> rc, pos |-> pos, ret |-> None, panic |-> NoPanic,
     returned |-> FALSE]
Returned(o) ==
    [rolling_crc |-> o.rolling_crc, pos |-> o.pos, ret |-> o.ret,
     panic |-> o.panic, returned |-> TRUE]

\* A round that, having a pair to return, first pulls one more item from the
\* source.
RollingCRCMap_round_pulls_next(st, ctx, bytes, k) ==
    LET o == push(st.rolling_crc, ctx, bytes[k].val)
    IN  IF o.panic # NoPanic
        THEN Returned(NextOutcome(o.rolling_crc, k, None, o.panic))
        ELSE IF o.ret # None
        THEN Returned(emit(o, ctx.window_size,
                           IF k < Len(bytes) THEN k + 1 ELSE k, FALSE))
        ELSE Running(o.rolling_crc, k)

\* One round of RollingCRCMap::next's loop, on the item bytes[k]:
\* `let crc = self.rolling_crc.push(byte); if let Some(crc) = crc { return ... }`.
RollingCRCMap_round(st, ctx, bytes, k) ==
    LET o == push(st.rolling_crc, ctx, bytes[k].val)
    IN  IF o.panic # NoPanic
        THEN Returned(NextOutcome(o.rolling_crc, k, None, o.panic))
        ELSE IF o.ret # None
        THEN Returned(emit(o, ctx.window_size, k, FALSE))
        ELSE Running(o.rolling_crc, k)

RECURSIVE RollingCRCMap_loop(_, _, _, _, _)
\* The rounds of the loop on the items bytes[lo] .. bytes[hi], in order, up to
\* the round that returns: evaluated as the first half of the rounds, whose
\* result st1 is bound once, followed by the second half.
RollingCRCMap_loop(st, ctx, bytes, lo, hi) ==
    IF st.returned \/ lo > hi THEN st
    ELSE IF lo = hi THEN RollingCRCMap_round(st, ctx, bytes, lo)
    ELSE CHOOSE r \in
             {RollingCRCMap_loop(st1, ctx, bytes, ((lo + hi) \div 2) + 1, hi) :
                 st1 \in {RollingCRCMap_loop(st, ctx, bytes, lo, (lo + hi) \div 2)}} :
             TRUE

\* RollingCRCMap::next: bytes is the whole source, pos the number of its items
\* already taken.  `self.bytes.next()?` returns None at the end of the source.
RollingCRCMap_next(rc, ctx, bytes, pos) ==
    LET st == RollingCRCMap_loop(Running(rc, pos), ctx, bytes, pos + 1, Len(bytes))
    IN  NextOutcome(st.rolling_crc, st.pos, st.ret, st.panic)

\* The round with an error item skipped where the code returns it.
RollingCRCMapResult_round_drop_err(st, ctx, bytes, k) ==
    IF ~bytes[k].ok
    THEN Running(st.rolling_crc, k)
    ELSE LET o == push(st.rolling_crc, ctx, bytes[k].val)
         IN  IF o.panic # NoPanic
             THEN Returned(NextOutcome(o.rolling_crc, k, None, o.panic))
             ELSE IF o.ret # None
             THEN Returned(emit(o, ctx.window_size, k, TRUE))
             ELSE Running(o.rolling_crc, k)

\* The round with a zero byte pushed for an error item before it is returned.
RollingCRCMapResult_round_push_err(st, ctx, bytes, k) ==
    LET o == push(st.rolling_crc, ctx, IF bytes[k].ok THEN bytes[k].val ELSE 0)
    IN  IF ~bytes[k].ok
        THEN Returned(NextOutcome(o.rolling_crc, k, Some(ErrOut(bytes[k].val)),
                                  NoPanic))
        ELSE IF o.panic # NoPanic
        THEN Returned(NextOutcome(o.rolling_crc, k, None, o.panic))
        ELSE IF o.ret # None
        THEN Returned(emit(o, ctx.window_size, k, TRUE))
        ELSE Running(o.rolling_crc, k)

\* One round of RollingCRCMapResult::next's loop, on the item bytes[k].
RollingCRCMapResult_round(st, ctx, bytes, k) ==
    IF ~bytes[k].ok
    THEN Returned(NextOutcome(st.rolling_crc, k, Some(ErrOut(bytes[k].val)), NoPanic))
    ELSE LET o == push(st.rolling_crc, ctx, bytes[k].val)
         IN  IF o.panic # NoPanic
             THEN Returned(NextOutcome(o.rolling_crc, k, None, o.panic))
             ELSE IF o.ret # None
             THEN Returned(emit(o, ctx.window_size, k, TRUE))
             ELSE Running(o.rolling_crc, k)

RECURSIVE RollingCRCMapResult_loop(_, _, _, _, _)
\* The rounds of the loop on the items bytes[lo] .. bytes[hi], as above.
RollingCRCMapResult_loop(st, ctx, bytes, lo, hi) ==
    IF st.returned \/ lo > hi THEN st
    ELSE IF lo = hi THEN RollingCRCMapResult_round(st, ctx, bytes, lo)
    ELSE CHOOSE r \in
             {RollingCRCMapResult_loop(st1, ctx, bytes, ((lo + hi) \div 2) + 1, hi) :
                 st1 \in {RollingCRCMapResult_loop(st, ctx, bytes, lo,
                                                   (lo + hi) \div 2)}} :
             TRUE

\* RollingCRCMapResult::next
RollingCRCMapResult_next(rc, ctx, bytes, pos) ==
    LET st == RollingCRCMapResult_loop(Running(rc, pos), ctx, bytes,
                                       pos + 1, Len(bytes))
    IN  NextOutcome(st.rolling_crc, st.pos, st.ret, st.panic)

(***************************************************************************)
(* The byte sources the program is run on.                                 *)
(***************************************************************************)
\* The byte values of the generated sources: zero, 'l' and 0xff.
Bytes == {0, 108, 255}
\* The generated sources: every sequence of at most MaxLen items, each a byte
\* of Bytes or an error; an error carries its position in the source, so that
\* no two errors of a source are equal.
GenInputs ==
    UNION {{[k \in 1..n |-> IF f[k].ok THEN f[k] ELSE ErrItem(k)] :
               f \in [1..n -> {OkByte(b) : b \in Bytes} \cup {ErrItem(0)}]} :
           n \in 0..MaxLen}

\* b"hello world" of the doc tests and of examples/basic.rs.
HelloWorld == <<104, 101, 108, 108, 111, 32, 119, 111, 114, 108, 100>>
\* b"llllollllollll" of test_iterator_index.
Llllollllollll == <<108, 108, 108, 108, 111, 108, 108, 108, 108, 111,
                    108, 108, 108, 108>>
\* b"llll", its target.
Llll == <<108, 108, 108, 108>>

OkBytes(bs) == [k \in 1..Len(bs) |-> OkByte(bs[k])]

DocInputs == {OkBytes(HelloWorld), OkBytes(Llllollllollll)}

Inputs == GenInputs \cup DocInputs

(***************************************************************************)
(* The state.                                                              *)
(***************************************************************************)
VARIABLES
    input,        \* the byte source: a sequence of Ok(byte) and Err(e) items
    pos,          \* the number of items of input taken so far
    context,      \* None, or Some(the RollingCRCContext)
    rolling_crc,  \* None, or Some(the RollingCRC)
    mode,         \* who owns the engine: "none", "engine" (the caller),
                  \* "iter" (a RollingCRCMap), "iter_result" (a RollingCRCMapResult)
    start,        \* the engine's count when the adapter was made
    out,          \* the items the adapter has yielded, in order
    last,         \* the value the latest call of push or next returned
    panicked,     \* NoPanic, or the panic that ended the run
    clone_crc,    \* None, or Some(the RollingCRC that rolling_crc.clone() made)
    clone_pos,    \* the number of items of input the clone's caller has taken
    clone_last,   \* the value the latest push on the clone returned
    cyclic,       \* whether the source starts over after its last item, without end
    in_next,      \* whether a call of an adapter's next is inside its loop
    once,         \* the state of CRC_TABLE's one-time initialisation
    static_table, \* None, or Some(the table CRC_TABLE holds)
    builds,       \* the number of times CRC_TABLE's initialiser has run
    threads       \* what each thread that makes a context is doing

vars == <<input, pos, context, rolling_crc, mode, start, out, last, panicked,
          clone_crc, clone_pos, clone_last, cyclic, in_next, once, static_table,
          builds, threads>>

clone_vars == <<clone_crc, clone_pos, clone_last>>
call_vars == <<cyclic, in_next>>
lazy_vars == <<once, static_table, builds, threads>>

\* The threads that make contexts.
Threads == {1, 2, 3}

\* A thread that has not yet called RollingCRCContext::new: it holds no
\* reference to the base table and no context.
ThreadStart == [pc |-> "start", crc_table |-> None, context |-> None]

Init ==
    /\ input \in Inputs
    /\ pos = 0
    /\ context = None
    /\ rolling_crc = None
    /\ mode = "none"
    /\ start = 0
    /\ out = <<>>
    /\ last = None
    /\ panicked = NoPanic
    /\ clone_crc = None
    /\ clone_pos = 0
    /\ clone_last = None
    /\ cyclic = FALSE
    /\ in_next = FALSE
    /\ once = "incomplete"
    /\ static_table = None
    /\ builds = 0
    /\ threads = [t \in Threads |-> ThreadStart]

\* let context = RollingCRCContext::new(window_size)
ContextNew(window_size) ==
    /\ panicked = NoPanic
    /\ context = None
    /\ LET ctx == RollingCRCContext_new(window_size)
       IN  IF ctx.rolling_crc_table = NoTable
           THEN /\ panicked' = SubtractOverflow
                /\ context' = context
           ELSE /\ panicked' = panicked
                /\ context' = Some(ctx)
    /\ UNCHANGED <<input, pos, rolling_crc, mode, start, out, last, clone_vars, call_vars, lazy_vars>>

\* let rolling_crc = RollingCRC::new(&context)
EngineNew ==
    /\ panicked = NoPanic
    /\ context # None
    /\ mode = "none"
    /\ rolling_crc' = Some(RollingCRC_new)
    /\ mode' = "engine"
    /\ UNCHANGED <<input, pos, context, start, out, last, panicked, clone_vars, call_vars, lazy_vars>>

\* rolling_crc.push(byte), the caller taking the next byte of its source.
Push ==
    /\ panicked = NoPanic
    /\ mode = "engine"
    /\ pos < Len(input)
    /\ input[pos + 1].ok
    /\ LET o == push(rolling_crc[1], context[1], input[pos + 1].val)
       IN  /\ rolling_crc' = Some(o.rolling_crc)
           /\ last' = o.ret
           /\ panicked' = o.panic
    /\ pos' = pos + 1
    /\ UNCHANGED <<input, context, mode, start, out, clone_vars, call_vars, lazy_vars>>

\* The rest of the source holds bytes only: it is an Iterator<Item=u8>.
AllOk(bytes, from) == \A k \in (from + 1)..Len(bytes) : bytes[k].ok

\* rolling_crc.iter(bytes), over the rest of the source.
Iter ==
    /\ panicked = NoPanic
    /\ mode = "engine"
    /\ AllOk(input, pos)
    /\ mode' = "iter"
    /\ start' = rolling_crc[1].count
    /\ UNCHANGED <<input, pos, context, rolling_crc, out, last, panicked, clone_vars, call_vars, lazy_vars>>

\* rolling_crc.iter_result(bytes), over the rest of the source.
IterResult ==
    /\ panicked = NoPanic
    /\ mode = "engine"
    /\ mode' = "iter_result"
    /\ start' = rolling_crc[1].count
    /\ UNCHANGED <<input, pos, context, rolling_crc, out, last, panicked, clone_vars, call_vars, lazy_vars>>

\* What a call of next leaves in the state.
Yield(o) ==
    /\ rolling_crc' = Some(o.rolling_crc)
    /\ pos' = o.pos
    /\ last' = o.ret
    /\ out' = IF o.ret = None THEN out ELSE Append(out, o.ret[1])
    /\ panicked' = o.panic
    /\ UNCHANGED <<input, context, mode, start, clone_vars, call_vars, lazy_vars>>

\* One call of RollingCRCMap::next.
MapNext ==
    /\ panicked = NoPanic
    /\ mode = "iter"
    /\ Yield(RollingCRCMap_next(rolling_crc[1], context[1], input, pos))

\* One call of RollingCRCMapResult::next.
MapResultNext ==
    /\ panicked = NoPanic
    /\ mode = "iter_result"
    /\ Yield(RollingCRCMapResult_next(rolling_crc[1], context[1], input, pos))

Next ==
    \/ \E window_size \in WindowSizes : ContextNew(window_size)
    \/ EngineNew
    \/ Push
    \/ Iter
    \/ IterResult
    \/ MapNext
    \/ MapResultNext

Spec == Init /\ [][Next]_vars

(***************************************************************************)
(* Two engines: the derived Clone of RollingCRC.  The copy is driven by    *)
(* push over the same source as the original, each at its own pace.  This  *)
(* specification explores the generated sources, with at most one clone.   *)
(***************************************************************************)
\* A clone that copies count, bytes and last_crc but starts its cursor over.
RollingCRC_clone_resets_index(self) ==
    [count |-> self.count, bytes |-> self.bytes, index |-> 0,
     last_crc |-> self.last_crc]

\* #[derive(Clone)]: a copy of every field; context is a shared reference.
RollingCRC_clone(self) ==
    [count |-> self.count, bytes |-> self.bytes, index |-> self.index,
     last_crc |-> self.last_crc]

\* let copy = rolling_crc.clone()
Clone ==
    /\ panicked = NoPanic
    /\ mode = "engine"
    /\ clone_crc = None
    /\ clone_crc' = Some(RollingCRC_clone(rolling_crc[1]))
    /\ clone_pos' = pos
    /\ clone_last' = None
    /\ UNCHANGED <<input, pos, context, rolling_crc, mode, start, out, last,
                   panicked, call_vars, lazy_vars>>

\* copy.push(byte), the caller taking the next byte of the copy's source.
PushClone ==
    /\ panicked = NoPanic
    /\ clone_crc # None
    /\ clone_pos < Len(input)
    /\ input[clone_pos + 1].ok
    /\ LET o == push(clone_crc[1], context[1], input[clone_pos + 1].val)
       IN  /\ clone_crc' = Some(o.rolling_crc)
           /\ clone_last' = o.ret
           /\ panicked' = o.panic
    /\ clone_pos' = clone_pos + 1
    /\ UNCHANGED <<input, pos, context, rolling_crc, mode, start, out, last,
                   call_vars, lazy_vars>>

InitAll == Init /\ input \in GenInputs

NextAll == Next \/ Clone \/ PushClone

SpecAll == InitAll /\ [][NextAll]_vars

(***************************************************************************)
(* The checksum primitive alone: RollingCRCContext::crc over the bytes of  *)
(* the source, in a context of any window size.                            *)
(***************************************************************************)
\* The bytes of the Ok items of a source, in order.
OkVals(items) ==
    LET oks == SelectSeq(items, LAMBDA it : it.ok)
    IN  [k \in 1..Len(oks) |-> oks[k].val]

\* let crc = context.crc(bytes)
Crc ==
    /\ panicked = NoPanic
    /\ context # None
    /\ last' = Some(RollingCRCContext_crc(context[1], OkVals(input)))
    /\ UNCHANGED <<input, pos, context, rolling_crc, mode, start, out,
                   panicked, clone_vars, call_vars, lazy_vars>>

NextCrc ==
    \/ \E window_size \in WindowSizes : ContextNew(window_size)
    \/ Crc

SpecCrc == Init /\ [][NextCrc]_vars
(***************************************************************************)
(* The adapters' next, one round of its loop at a time, over sources that  *)
(* may have no end: a cyclic source yields its items over and over, as     *)
(* Iterator::cycle and iter::repeat do.  Here usize is CountBits wide, so  *)
(* that `self.count += 1` reaches the end of its type: where overflow is   *)
(* checked it panics there, where it is not it wraps to 0.                 *)
(***************************************************************************)
CountBits == 3
UsizeModulus == 2 ^ CountBits
AddOverflow == "attempt to add with overflow"

\* The window sizes of this exploration.
LoopWindows == 0..MaxWindow

InitLoop ==
    /\ input \in GenInputs
    /\ cyclic \in BOOLEAN
    /\ cyclic => Len(input) >= 1
    /\ pos = 0
    /\ context = None
    /\ rolling_crc = None
    /\ mode = "none"
    /\ start = 0
    /\ out = <<>>
    /\ last = None
    /\ panicked = NoPanic
    /\ clone_crc = None
    /\ clone_pos = 0
    /\ clone_last = None
    /\ in_next = FALSE
    /\ once = "incomplete"
    /\ static_table = None
    /\ builds = 0
    /\ threads = [t \in Threads |-> ThreadStart]

\* The caller calls next, until it has pulled MaxLen + 1 items: it may stop
\* pulling at any time.  (With a window the engine's count is kept from the end
\* of usize: a call pushes at most window_size bytes.)
NextCall ==
    /\ panicked = NoPanic
    /\ mode \in {"iter", "iter_result"}
    /\ ~in_next
    /\ Len(out) <= MaxLen
    /\ context[1].window_size >= 1 =>
           rolling_crc[1].count + context[1].window_size < UsizeModulus
    /\ in_next' = TRUE
    /\ UNCHANGED <<input, pos, context, rolling_crc, mode, start, out, last,
                   panicked, clone_vars, cyclic, lazy_vars>>

\* `self.bytes.next()?` at the end of a source that has one: next returns None.
SourceEnd ==
    /\ panicked = NoPanic
    /\ in_next
    /\ ~cyclic
    /\ pos = Len(input)
    /\ in_next' = FALSE
    /\ last' = None
    /\ UNCHANGED <<input, pos, context, rolling_crc, mode, start, out,
                   panicked, clone_vars, cyclic, lazy_vars>>

\* One round of the loop of next, on the source's next item: the round returns
\* from next or goes round again.
LoopRound ==
    /\ panicked = NoPanic
    /\ in_next
    /\ pos < Len(input)
    /\ \E k \in {pos + 1} :
       \E st \in {IF mode = "iter"
                  THEN RollingCRCMap_round(Running(rolling_crc[1], pos),
                                           context[1], input, k)
                  ELSE RollingCRCMapResult_round(Running(rolling_crc[1], pos),
                                                 context[1], input, k)} :
           /\ pos' = IF cyclic /\ k = Len(input) THEN 0 ELSE k
           /\ \/ /\ st.rolling_crc.count < UsizeModulus
                 /\ rolling_crc' = Some(st.rolling_crc)
                 /\ panicked' = st.panic
                 /\ in_next' = ~st.returned
                 /\ last' = IF st.returned THEN st.ret ELSE last
                 /\ out' = IF st.returned /\ st.ret # None
                           THEN Append(out, st.ret[1]) ELSE out
              \/ /\ st.rolling_crc.count = UsizeModulus
                 /\ rolling_crc' = Some([st.rolling_crc EXCEPT !.count = 0])
                 /\ panicked' = st.panic
                 /\ in_next' = ~st.returned
                 /\ last' = IF st.returned THEN st.ret ELSE last
                 /\ out' = IF st.returned /\ st.ret # None
                           THEN Append(out, st.ret[1]) ELSE out
              \/ /\ st.rolling_crc.count = UsizeModulus
                 /\ panicked' = AddOverflow
                 /\ UNCHANGED <<rolling_crc, in_next, last, out>>
    /\ UNCHANGED <<input, context, mode, start, clone_vars, cyclic, lazy_vars>>

NextLoop ==
    \/ \E window_size \in LoopWindows : ContextNew(window_size)
    \/ EngineNew
    \/ Iter
    \/ IterResult
    \/ NextCall
    \/ SourceEnd
    \/ LoopRound

\* A call of next that has begun keeps running: its thread is not held up
\* for ever.  The caller need not call again.
SpecLoop ==
    InitLoop /\ [][NextLoop]_vars /\ WF_vars(LoopRound) /\ WF_vars(SourceEnd)

(***************************************************************************)
(* The rolling step on the tables alone, as test_rolling_crc_table runs it: *)
(* the open CRC of the first window, then one update and one table lookup   *)
(* per further byte of the buffer.                                          *)
(***************************************************************************)
\* The buffer of "random" values of the test, for a window size:
\* (0..winsize+test_size).map(|i| ((11 + i*31 + i/17) & 0xff) as u8)
TestBuffer(winsize) ==
    [k \in 1..(3 * winsize) |-> (11 + (k - 1) * 31 + ((k - 1) \div 17)) % 256]

\* The buffers of the exploration: every sequence of at most MaxLen bytes of
\* Bytes, and the test's buffer for each of the tests' window sizes.
TableBuffers ==
    {b \in GenInputs : \A k \in 1..Len(b) : b[k].ok}
        \cup {OkBytes(TestBuffer(winsize)) : winsize \in DocWindows}

InitTable ==
    /\ input \in TableBuffers
    /\ pos = 0
    /\ context = None
    /\ rolling_crc = None
    /\ mode = "none"
    /\ start = 0
    /\ out = <<>>
    /\ last = None
    /\ panicked = NoPanic
    /\ clone_crc = None
    /\ clone_pos = 0
    /\ clone_last = None
    /\ cyclic = FALSE
    /\ in_next = FALSE
    /\ once = "incomplete"
    /\ static_table = None
    /\ builds = 0
    /\ threads = [t \in Threads |-> ThreadStart]

\* let mut crc2 = calc_crc(&buffer[0..winsize], &crc_table);
\* crc2 = finish_crc(crc2);
TableOpen ==
    /\ panicked = NoPanic
    /\ context # None
    /\ mode = "none"
    /\ context[1].window_size >= 1
    /\ Len(input) >= context[1].window_size
    /\ mode' = "table"
    /\ pos' = context[1].window_size
    /\ last' = Some(finish_crc(calc_crc(
                   SubSeq(OkVals(input), 1, context[1].window_size), CRC_TABLE)))
    /\ UNCHANGED <<input, context, rolling_crc, start, out, panicked,
                   clone_vars, call_vars, lazy_vars>>

\* crc2 = update_crc(crc2, &crc_table, buffer[i])
\*     ^ rolling_crc_table[buffer[i - winsize] as usize];
TableRoll ==
    /\ mode = "table"
    /\ pos < Len(input)
    /\ last' = Some(Xor32(
                   update_crc(last[1], CRC_TABLE, input[pos + 1].val),
                   context[1].rolling_crc_table[
                       input[pos - context[1].window_size + 1].val]))
    /\ pos' = pos + 1
    /\ UNCHANGED <<input, context, rolling_crc, mode, start, out, panicked,
                   clone_vars, call_vars, lazy_vars>>

NextTable ==
    \/ \E window_size \in WindowSizes : ContextNew(window_size)
    \/ TableOpen
    \/ TableRoll

SpecTable == InitTable /\ [][NextTable]_vars

(***************************************************************************)
(* The two constructions of the base table, as test_fast_crc_table runs    *)
(* them: make_crc_table on a zeroed table, then the classic construction,  *)
(* one entry per step.                                                     *)
(***************************************************************************)
RECURSIVE classic_steps(_, _)
\* for _ in 0..n { r = (r >> 1) ^ (POLY_CRC & !(u32::wrapping_sub(r & 1, 1))) }
classic_steps(r, n) ==
    IF n = 0 THEN r
    ELSE CHOOSE q \in {classic_steps(r1, n - 1) : r1 \in {crc_step(r)}} : TRUE

\* let mut r = i; for _ in 0..8 { .. }; crc_table[i as usize] = r
classic_entry(i) == classic_steps(U32OfByte(i), 8)

\* let mut fast_crc_table = [0; 256];
\* make_crc_table(&mut fast_crc_table, POLY_CRC);
FastTable ==
    /\ mode = "none"
    /\ context = None
    /\ mode' = "fast_crc_table"
    /\ last' = Some(make_crc_table(ZeroTable, POLY_CRC))
    /\ UNCHANGED <<input, pos, context, rolling_crc, start, out, panicked,
                   clone_vars, call_vars, lazy_vars>>

\* One round of `for i in 0..256`: out holds crc_table[0 .. i].
ClassicEntry ==
    /\ mode = "fast_crc_table"
    /\ pos < 256
    /\ out' = Append(out, classic_entry(pos))
    /\ pos' = pos + 1
    /\ UNCHANGED <<input, context, rolling_crc, mode, start, last, panicked,
                   clone_vars, call_vars, lazy_vars>>

InitFast == Init /\ input = <<>>

NextFast == FastTable \/ ClassicEntry

SpecFast == InitFast /\ [][NextFast]_vars

(***************************************************************************)
(* Several threads, each calling RollingCRCContext::new for the first      *)
(* time.  CRC_TABLE is a lazy static: its first dereference runs the       *)
(* initializer under the static's Once, a dereference that arrives while   *)
(* the initializer runs waits for it, and a later one reads the value.     *)
(***************************************************************************)
\* A dereference that meets the initializer running on another thread finds
\* no value yet and runs the initializer itself.
lazy_static_deref_unguarded(once_state) ==
    IF once_state = "complete" THEN "read" ELSE "initialize"

\* What a dereference of CRC_TABLE does, by the state of its Once.
lazy_static_deref(once_state) ==
    IF once_state = "complete" THEN "read"
    ELSE IF once_state = "incomplete" THEN "initialize"
    ELSE "wait"

\* let crc_table = &CRC_TABLE, dereferenced: the first thread to arrive enters
\* the initializer, whose `let mut crc_table = [0;256]` is its own; a thread
\* that arrives while the initializer runs is blocked.
Deref(t) ==
    /\ threads[t].pc = "start"
    /\ \/ /\ lazy_static_deref(once) = "initialize"
          /\ once' = "running"
          /\ builds' = builds + 1
          /\ threads' = [threads EXCEPT ![t].pc = "initializing",
                                        ![t].crc_table = Some(ZeroTable)]
          /\ UNCHANGED static_table
       \/ /\ lazy_static_deref(once) = "read"
          /\ threads' = [threads EXCEPT ![t].pc = "have_table",
                                        ![t].crc_table = static_table]
          /\ UNCHANGED <<once, builds, static_table>>
    /\ UNCHANGED <<input, pos, context, rolling_crc, mode, start, out, last,
                   panicked, clone_vars, call_vars>>

\* make_crc_table(&mut crc_table, POLY_CRC), on the initializer's own array.
Initialize(t) ==
    /\ threads[t].pc = "initializing"
    /\ threads' = [threads EXCEPT
                      ![t].pc = "initialized",
                      ![t].crc_table =
                          Some(make_crc_table(threads[t].crc_table[1], POLY_CRC))]
    /\ UNCHANGED <<input, pos, context, rolling_crc, mode, start, out, last,
                   panicked, clone_vars, call_vars, once, static_table, builds>>

\* The initializer's value `crc_table` is stored in the static and the Once
\* completes; the thread goes on with a reference to the static.
Publish(t) ==
    /\ threads[t].pc = "initialized"
    /\ static_table' = threads[t].crc_table
    /\ once' = "complete"
    /\ threads' = [threads EXCEPT ![t].pc = "have_table"]
    /\ UNCHANGED <<input, pos, context, rolling_crc, mode, start, out, last,
                   panicked, clone_vars, call_vars, builds>>

\* The rest of RollingCRCContext::new(window_size) on a thread.
ThreadContextNew(t, window_size) ==
    /\ threads[t].pc = "have_table"
    /\ threads' = [threads EXCEPT
                      ![t].pc = "done",
                      ![t].context = Some(RollingCRCContext_new(window_size))]
    /\ UNCHANGED <<input, pos, context, rolling_crc, mode, start, out, last,
                   panicked, clone_vars, call_vars, once, static_table, builds>>

InitThreads == Init /\ input = <<>>

NextThreads ==
    \E t \in Threads :
        \/ Deref(t)
        \/ Initialize(t)
        \/ Publish(t)
        \/ \E window_size \in LoopWindows : ThreadContextNew(t, window_size)

SpecThreads == InitThreads /\ [][NextThreads]_vars

(***************************************************************************)
(* Two engines made on one context, each pushed by its own owner: the      *)
(* first takes the bytes of the source in order, the second takes them     *)
(* from the far end, so that the two streams differ.                       *)
(***************************************************************************)
\* The second engine's source: the items of the first one's, last to first.
SecondInput == [k \in 1..Len(input) |-> input[Len(input) + 1 - k]]

\* let second = RollingCRC::new(&context)
SecondEngineNew ==
    /\ panicked = NoPanic
    /\ context # None
    /\ clone_crc = None
    /\ clone_crc' = Some(RollingCRC_new)
    /\ clone_pos' = 0
    /\ clone_last' = None
    /\ UNCHANGED <<input, pos, context, rolling_crc, mode, start, out, last,
                   panicked, call_vars, lazy_vars>>

\* second.push(byte), the caller taking the next byte of the second source.
PushSecond ==
    /\ panicked = NoPanic
    /\ clone_crc # None
    /\ clone_pos < Len(input)
    /\ SecondInput[clone_pos + 1].ok
    /\ LET o == push(clone_crc[1], context[1], SecondInput[clone_pos + 1].val)
       IN  /\ clone_crc' = Some(o.rolling_crc)
           /\ clone_last' = o.ret
           /\ panicked' = o.panic
    /\ clone_pos' = clone_pos + 1
    /\ UNCHANGED <<input, pos, context, rolling_crc, mode, start, out, last,
                   call_vars, lazy_vars>>

InitTwo == Init

NextTwo ==
    \/ \E window_size \in WindowSizes : ContextNew(window_size)
    \/ EngineNew
    \/ Push
    \/ SecondEngineNew
    \/ PushSecond

SpecTwo == InitTwo /\ [][NextTwo]_vars

(***************************************************************************)
(* update_crc alone, on two accumulators and their XOR with one byte.      *)
(***************************************************************************)
\* The accumulators of the exploration: the 32-bit values whose four bytes
\* are bytes of Bytes.
Accumulators == {<<b3, b2, b1, b0>> : b3 \in Bytes, b2 \in Bytes,
                                      b1 \in Bytes, b0 \in Bytes}

\* out holds the two accumulators a and b, input the byte c.
InitUpdate ==
    /\ input \in {<<OkByte(c)>> : c \in Bytes}
    /\ out \in {<<a, b>> : a \in Accumulators, b \in Accumulators}
    /\ pos = 0
    /\ context = None
    /\ rolling_crc = None
    /\ mode = "none"
    /\ start = 0
    /\ last = None
    /\ panicked = NoPanic
    /\ clone_crc = None
    /\ clone_pos = 0
    /\ clone_last = None
    /\ cyclic = FALSE
    /\ in_next = FALSE
    /\ once = "incomplete"
    /\ static_table = None
    /\ builds = 0
    /\ threads = [t \in Threads |-> ThreadStart]

\* update_crc(a, &CRC_TABLE, c), update_crc(b, &CRC_TABLE, c) and
\* update_crc(a ^ b, &CRC_TABLE, c)
UpdateCrc ==
    /\ mode = "none"
    /\ mode' = "update_crc"
    /\ last' = Some(<<update_crc(out[1], CRC_TABLE, input[1].val),
                      update_crc(out[2], CRC_TABLE, input[1].val),
                      update_crc(Xor32(out[1], out[2]), CRC_TABLE, input[1].val)>>)
    /\ UNCHANGED <<input, pos, context, rolling_crc, start, out, panicked,
                   clone_vars, call_vars, lazy_vars>>

NextUpdate == UpdateCrc

SpecUpdate == InitUpdate /\ [][NextUpdate]_vars

(***************************************************************************)
(* Properties.                                                             *)
(***************************************************************************)
\* The window size of the context and the engine, once they exist.
W == context[1].window_size
Engine == rolling_crc[1]
\* The bytes the engine has been pushed: the Ok items among the pos items
\* taken from the source.
Pushed == OkVals(SubSeq(input, 1, pos))
\* The non-rolling checksum: the full fold.
checksum(bytes) == RollingCRCContext_crc(context[1], bytes)
\* stream[i .. i+w], i counting from 0.
Window(stream, i, w) == SubSeq(stream, i + 1, i + w)
Max(a, b) == IF a >= b THEN a ELSE b
\* The position of the first pair an adapter made at count `start` can emit.
First == Max(start + 1, W) - W

\* C1: for a window size w >= 1, every checksum the engine hands out is the
\* non-rolling checksum of the window it stands for: a push that leaves count
\* n >= w returns checksum(stream[n-w .. n]), and the checksum stream holds, for
\* every position i from its first up to n-w, the pair (i, checksum(stream[i .. i+w])).
RollingEqualsRecompute ==
    (rolling_crc # None /\ W >= 1 /\ panicked = NoPanic) =>
        /\ (mode = "engine" /\ Engine.count >= W) =>
               last = Some(checksum(Window(Pushed, Engine.count - W, W)))
        /\ mode = "iter" =>
               \A i \in First..(pos - W) :
                   /\ i - First + 1 <= Len(out)
                   /\ out[i - First + 1] = <<i, checksum(Window(Pushed, i, W))>>

\* C1 witness: the stream of a fresh engine with a window of 3 has emitted five
\* pairs, four of them on the Rolling branch.
RollingEqualsRecomputeWitness ==
    /\ mode = "iter" /\ start = 0 /\ W = 3 /\ Len(out) = 5
    /\ Engine.index = 1
    /\ out[5] = <<4, checksum(Window(Pushed, 4, 3))>>

\* C2: for a window size w >= 1 the checksum stream has emitted, of a source it
\* has read n bytes of, exactly max(0, n - w + 1) pairs when the engine was
\* fresh (fewer by the windows that ended before the stream was made otherwise);
\* their positions are contiguous from the first, each position is count -
\* window_size at emission, and the stream ends only at the end of the source.
PositionAccounting ==
    (mode = "iter" /\ W >= 1 /\ panicked = NoPanic) =>
        /\ Len(out) = Max(0, pos - W + 1 - First)
        /\ start = 0 => Len(out) = Max(0, pos - W + 1)
        /\ \A k \in 1..Len(out) : out[k][1] = First + k - 1
        /\ (Len(out) > 0 /\ last # None) =>
               /\ last[1] = out[Len(out)]
               /\ last[1][1] = Engine.count - W
               /\ last[1][1] + W = pos
        /\ (last = None /\ pos > start) => pos = Len(input)

\* C2 witness: a fresh engine's stream over b"hello world" with a window of 5
\* has ended, with 11 - 5 + 1 = 7 pairs at positions 0 .. 6.
PositionAccountingWitness ==
    /\ mode = "iter" /\ start = 0 /\ W = 5 /\ input = OkBytes(HelloWorld)
    /\ last = None /\ pos = Len(input)
    /\ Len(out) = 7 /\ out[1][1] = 0 /\ out[7][1] = 6

\* C3: with a window size of 0 no call hands out a checksum: every push
\* returns None, the checksum stream yields nothing and the result stream
\* yields errors only, however many bytes were pushed, and nothing panics.
ZeroWindowNeverEmits ==
    (context # None /\ W = 0) =>
        /\ panicked = NoPanic
        /\ rolling_crc # None => Engine.last_crc = None
        /\ mode = "engine" => last = None
        /\ mode = "iter" => (out = <<>> /\ last = None)
        /\ mode = "iter_result" => \A k \in 1..Len(out) : ~out[k].ok

\* C3 witness: the stream over b"hello world" with a window of 0 has read all
\* 11 bytes, pushed them all, and ended empty.
ZeroWindowNeverEmitsWitness ==
    /\ context # None /\ W = 0 /\ mode = "iter"
    /\ input = OkBytes(HelloWorld) /\ pos = 11 /\ Engine.count = 11
    /\ out = <<>> /\ last = None

(***************************************************************************)
(* The reference CRC-32 of ISO 3309 / IEEE 802.3, bit by bit and without   *)
(* any table: the register starts at 0xFFFFFFFF; each byte is XORed into   *)
(* its low byte and the register is shifted right eight times, the         *)
(* reflected polynomial 0xEDB88320 XORed in whenever the bit shifted out   *)
(* is 1; the result is the register's complement.                          *)
(***************************************************************************)
RefPoly == <<237, 184, 131, 32>>
RefShift(r) == IF r[4] % 2 = 1 THEN Xor32(Shr1(r), RefPoly) ELSE Shr1(r)
RefByte(r, c) ==
    RefShift(RefShift(RefShift(RefShift(
        RefShift(RefShift(RefShift(RefShift(
            <<r[1], r[2], r[3], Xor8(r[4], c)>>))))))))
RECURSIVE RefFold(_, _, _, _)
RefFold(r, s, lo, hi) ==
    IF lo > hi THEN r
    ELSE IF lo = hi THEN RefByte(r, s[lo])
    ELSE CHOOSE q \in {RefFold(r1, s, ((lo + hi) \div 2) + 1, hi) :
                       r1 \in {RefFold(r, s, lo, (lo + hi) \div 2)}} : TRUE
RefCrc32(s) ==
    LET r == RefFold(<<255, 255, 255, 255>>, s, 1, Len(s))
    IN  <<255 - r[1], 255 - r[2], 255 - r[3], 255 - r[4]>>

\* C4: whatever the window size of the context, context.crc(s) is the reference
\* CRC-32 of s, for every byte sequence s: 0 for the empty one, 0x0d4a1185 for
\* b"hello world".
CrcIsReferenceCrc32 ==
    (mode = "none" /\ last # None) =>
        /\ last = Some(RefCrc32(OkVals(input)))
        /\ OkVals(input) = <<>> => last = Some(<<0, 0, 0, 0>>)
        /\ input = OkBytes(HelloWorld) => last = Some(<<13, 74, 17, 133>>)

\* C4 witness: a context of window size 0, whose rolling table was never built,
\* has computed crc(b"hello world") = 0x0d4a1185.
CrcIsReferenceCrc32Witness ==
    /\ mode = "none" /\ context # None /\ W = 0
    /\ input = OkBytes(HelloWorld)
    /\ last = Some(<<13, 74, 17, 133>>)

(***************************************************************************)
(* The plain checksum stream of a fresh engine, run to its end over a      *)
(* sequence of bytes: every pair RollingCRCMap::next yields, in order.     *)
(***************************************************************************)
RECURSIVE PlainRun(_, _, _, _)
PlainRun(rc, bytes, p, acc) ==
    CHOOSE r \in
        {IF o.ret = None THEN acc
         ELSE PlainRun(o.rolling_crc, bytes, o.pos, Append(acc, o.ret[1])) :
            o \in {RollingCRCMap_next(rc, context[1], bytes, p)}} : TRUE
PlainStream(bytes) == PlainRun(RollingCRC_new, OkBytes(bytes), 0, <<>>)

\* The number of Ok items among the first k items of the source.
OkCount(k) == Len(OkVals(SubSeq(input, 1, k)))

\* What the result stream owes for the k-th item of the source: the error, for
\* an error item; for a byte that completes a window, the pair the plain stream
\* over the bytes alone has at that window's position; nothing otherwise.
Owed(k, plain) ==
    IF ~input[k].ok THEN <<ErrOut(input[k].val)>>
    ELSE IF OkCount(k) >= W
    THEN <<OkPair(plain[OkCount(k) - W + 1][1], plain[OkCount(k) - W + 1][2])>>
    ELSE <<>>

RECURSIVE OwedUpTo(_, _)
\* What the result stream owes for the items start+1 .. k, in order.
OwedUpTo(k, plain) ==
    IF k <= start THEN <<>> ELSE OwedUpTo(k - 1, plain) \o Owed(k, plain)

\* The Ok items of the result stream's output, as the plain stream's pairs.
OkPairsOf(items) ==
    LET oks == SelectSeq(items, LAMBDA it : it.ok)
    IN  [k \in 1..Len(oks) |-> <<oks[k].index, oks[k].crc>>]
\* The errors of the result stream's output, and of a stretch of the source.
ErrsOf(items) ==
    LET errs == SelectSeq(items, LAMBDA it : ~it.ok)
    IN  [k \in 1..Len(errs) |-> errs[k].err]
SourceErrs(lo, hi) ==
    LET errs == SelectSeq(SubSeq(input, lo, hi), LAMBDA it : ~it.ok)
    IN  [k \in 1..Len(errs) |-> errs[k].val]

\* C5: for a window size w >= 1, the Ok items of the result stream are, in
\* order, the pairs of the plain stream over the source's bytes with the errors
\* removed (those from the stream's first position on); its errors are the
\* source's errors, each once and in the source's order; and the whole output
\* is, item by item of the source, the error or the pair of the window that
\* item completes.
ResultStreamIsPlainStream ==
    (mode = "iter_result" /\ W >= 1 /\ panicked = NoPanic) =>
        LET plain == PlainStream(Pushed)
        IN  /\ OkPairsOf(out) = SubSeq(plain, First + 1, Len(plain))
            /\ ErrsOf(out) = SourceErrs(start + 1, pos)
            /\ out = OwedUpTo(pos, plain)

\* C5 witness: with a window of 2 over Err, Ok, Ok, Err the result stream has
\* yielded the first error, the pair at position 0 and the second error.
ResultStreamIsPlainStreamWitness ==
    /\ mode = "iter_result" /\ W = 2 /\ start = 0 /\ pos = 4
    /\ ~input[1].ok /\ input[2].ok /\ input[3].ok /\ ~input[4].ok
    /\ out = <<ErrOut(1), OkPair(0, checksum(Pushed)), ErrOut(4)>>

(***************************************************************************)
(* A call of RollingCRCMapResult::next that returned an error.             *)
(***************************************************************************)
ErrorReturned ==
    /\ mode = "iter_result"
    /\ Len(out') = Len(out) + 1
    /\ ~out'[Len(out')].ok

RECURSIVE PushThrough(_, _, _)
\* The engine rc after push of each of the bytes input[lo] .. input[hi].
PushThrough(rc, lo, hi) ==
    IF lo > hi THEN rc
    ELSE PushThrough(push(rc, context[1], input[lo].val).rolling_crc, lo + 1, hi)

\* C6: a call of the result stream's next that returns an error returns the
\* error item its source has just yielded and has not pushed it: the engine it
\* leaves is the engine left by pushing the bytes the call read before the
\* error, none of which completed a window; count advanced by those bytes
\* alone, and when the error is the first item the call reads the engine is
\* unchanged.
ErrorItemLeavesEngine ==
    [][ErrorReturned =>
          /\ ~input[pos'].ok
          /\ out'[Len(out')] = ErrOut(input[pos'].val)
          /\ last' = Some(ErrOut(input[pos'].val))
          /\ \A k \in (pos + 1)..(pos' - 1) : input[k].ok
          /\ rolling_crc' = Some(PushThrough(Engine, pos + 1, pos' - 1))
          /\ rolling_crc'[1].count = Engine.count + (pos' - pos - 1)
          /\ ~input[pos + 1].ok => (pos' = pos + 1 /\ rolling_crc' = rolling_crc)
    ]_vars

\* C6 as stated: a call of next that returns an error leaves count, bytes,
\* index and last_crc as the call found them.
ErrorCallLeavesEngine ==
    [][ErrorReturned =>
          /\ out'[Len(out')] = ErrOut(input[pos'].val)
          /\ rolling_crc' = rolling_crc
    ]_vars

\* C6 witness: with a window of 2, the call after the pair at position 0 has
\* met the error at item 3 and returned it, the engine still at count 2 with
\* its window full.
ErrorItemLeavesEngineWitness ==
    /\ mode = "iter_result" /\ W = 2 /\ start = 0 /\ pos = 3
    /\ Len(out) = 2 /\ out[1].ok /\ out[1].index = 0
    /\ last = Some(ErrOut(3))
    /\ Engine.count = 2 /\ Len(Engine.bytes) = 2 /\ Engine.last_crc # None

\* C7: the push that brings count to window_size (w >= 1) has the whole stream
\* so far as its window: it returns the full fold's checksum of it and stores
\* that checksum XOR 0xFFFFFFFF as last_crc; a stream made before that push has
\* then yielded the one pair (0, checksum(stream)), and yields no other if the
\* source ends there.
FirstFullWindow ==
    (rolling_crc # None /\ W >= 1 /\ panicked = NoPanic /\ Engine.count = W) =>
        /\ Engine.bytes = Pushed
        /\ Engine.last_crc = Some(Xor32(checksum(Pushed), <<255, 255, 255, 255>>))
        /\ mode = "engine" => last = Some(checksum(Pushed))
        /\ (mode = "iter" /\ start < W) =>
               /\ out = << <<0, checksum(Pushed)>> >>
               /\ last # None => last = Some(<<0, checksum(Pushed)>>)
               /\ last = None => pos = Len(input)
        /\ (mode = "iter_result" /\ start < W) =>
               /\ OkPairsOf(out) = << <<0, checksum(Pushed)>> >>
               /\ (last # None /\ last[1].ok) =>
                      last = Some(OkPair(0, checksum(Pushed)))

\* C7 witness: the stream over b"hello world" with a window of 11 has ended
\* after its one pair, (0, 0x0d4a1185).
FirstFullWindowWitness ==
    /\ mode = "iter" /\ W = 11 /\ start = 0
    /\ input = OkBytes(HelloWorld) /\ pos = 11 /\ last = None
    /\ Engine.count = 11
    /\ out = << <<0, <<13, 74, 17, 133>>>> >>

\* C8: with a window of 4 over b"llllollllollll", every pair (i, crc) of the
\* checksum stream has crc = checksum(b"llll") exactly when i is 0, 5 or 10;
\* a stream made on the fresh engine yields positions 0, 1, ... in order and
\* has yielded the eleven positions 0 .. 10 when the source is exhausted.
TargetAtZeroFiveTen ==
    (mode = "iter" /\ W = 4 /\ input = OkBytes(Llllollllollll)
        /\ panicked = NoPanic) =>
        /\ \A k \in 1..Len(out) :
               (out[k][2] = checksum(Llll)) <=> (out[k][1] \in {0, 5, 10})
        /\ start = 0 =>
               /\ \A k \in 1..Len(out) : out[k][1] = k - 1
               /\ pos = 14 => Len(out) = 11
               /\ Len(out) <= 11

\* C8 witness: that stream has ended, its pairs at positions 0, 5 and 10 equal
\* to one another and different from the pair at position 4.
TargetAtZeroFiveTenWitness ==
    /\ mode = "iter" /\ W = 4 /\ input = OkBytes(Llllollllollll) /\ start = 0
    /\ pos = 14 /\ last = None /\ Len(out) = 11
    /\ out[1][2] = out[6][2] /\ out[6][2] = out[11][2]
    /\ out[5][2] # out[1][2]

(***************************************************************************)
(* The rolling table of a window of w >= 1 bytes, from the base table: the *)
(* open CRC of the byte c followed by w zero bytes, XOR the open CRC of w  *)
(* zero bytes.                                                             *)
(***************************************************************************)
OpenCrc(s) == calc_crc_loop(INIT_CRC, s, 1, Len(s), CRC_TABLE)
Zeros(n) == [k \in 1..n |-> 0]
WindowTable ==
    [w \in WindowSizes \ {0} |->
        [c \in Byte |-> Xor32(OpenCrc(<<c>> \o Zeros(w)), OpenCrc(Zeros(w)))]
            @@ <<>>] @@ <<>>

\* C9: RollingCRCContext::new never panics, whatever the window size: a
\* context of window size 0 holds the all-zero table it started from, the
\* builder and its winsize - 1 not having run; a context of window size w >= 1
\* holds the rolling table of w built from the base table.
ContextNewSucceeds ==
    /\ panicked # SubtractOverflow
    /\ context # None =>
           /\ W \in WindowSizes
           /\ W = 0 => context[1].rolling_crc_table = ZeroTable
           /\ W >= 1 =>
                  /\ context[1].rolling_crc_table = WindowTable[W]
                  /\ context[1].rolling_crc_table # ZeroTable

\* C9 witness: a context of window size 0 exists, its table all-zero, and an
\* engine has been made on it and pushed a byte.
ContextNewSucceedsWitness ==
    /\ context # None /\ W = 0 /\ panicked = NoPanic
    /\ context[1].rolling_crc_table = ZeroTable
    /\ rolling_crc # None /\ Engine.count = 1

\* What the Rolling branch of push relies on, for an engine e of window size
\* w >= 1: while Filling the buffer holds the count bytes pushed and no CRC is
\* stored; from count = w on the buffer holds w bytes, the cursor is inside it
\* and the open CRC is stored.
RollingReady(e) ==
    IF e.count < W
    THEN Len(e.bytes) = e.count /\ e.last_crc = None /\ e.index = 0
    ELSE Len(e.bytes) = W /\ e.last_crc # None /\ e.index < W

\* C10: whatever the public operations (context new, engine new, push, clone,
\* iter, iter_result, next) and their order, nothing panics, and every engine,
\* the original and its clone, is ready for the Rolling branch once its count
\* has reached the window size: the window-length assertion holds and the
\* `expect("internal error: lost CRC")` finds its CRC.
RollingBranchNeverAborts ==
    /\ panicked = NoPanic
    /\ (rolling_crc # None /\ W >= 1) => RollingReady(Engine)
    /\ (clone_crc # None /\ W >= 1) => RollingReady(clone_crc[1])

\* C10 witness: an engine and its clone have both pushed on the Rolling
\* branch, the engine through a stream, and stand at different counts.
RollingBranchNeverAbortsWitness ==
    /\ clone_crc # None /\ rolling_crc # None /\ W >= 1
    /\ mode = "iter" /\ Len(out) >= 1
    /\ Engine.count > W /\ clone_crc[1].count > W
    /\ Engine.count # clone_crc[1].count

(***************************************************************************)
(* An engine and its clone.                                                *)
(***************************************************************************)
RECURSIVE EngineAfter(_, _)
\* The engine RollingCRC::new makes, after push of bytes[1] .. bytes[n].
EngineAfter(bytes, n) ==
    IF n = 0 THEN RollingCRC_new
    ELSE push(EngineAfter(bytes, n - 1), context[1], bytes[n]).rolling_crc

\* The bytes the clone stands for: those the original had been pushed when it
\* was cloned, then those pushed on the clone.
ClonePushed == OkVals(SubSeq(input, 1, clone_pos))
CloneEngine == clone_crc[1]

\* C11: once an engine is cloned there are two engines, each the product of
\* its own pushes alone: a step that changes one of them leaves the other's
\* count, bytes, index and last_crc, and what its caller holds, as they were;
\* each is the engine a fresh one becomes on its own bytes and returns the
\* checksums of its own windows; and fed the same bytes the two are equal and
\* have returned the same checksum.
CloneIsIndependent ==
    /\ [](clone_crc # None =>
            /\ CloneEngine = EngineAfter(ClonePushed, Len(ClonePushed))
            /\ Engine = EngineAfter(Pushed, Len(Pushed))
            /\ (W >= 1 /\ CloneEngine.count >= W /\ clone_last # None) =>
                   clone_last = Some(checksum(
                       Window(ClonePushed, CloneEngine.count - W, W)))
            /\ (W >= 1 /\ mode = "engine" /\ Engine.count >= W) =>
                   last = Some(checksum(Window(Pushed, Engine.count - W, W)))
            /\ clone_pos = pos => CloneEngine = Engine
            /\ (clone_pos = pos /\ mode = "engine" /\ clone_last # None) =>
                   clone_last = last)
    /\ [][clone_crc # None =>
            /\ clone_crc' # clone_crc =>
                   /\ rolling_crc' = rolling_crc
                   /\ <<pos, last, out>>' = <<pos, last, out>>
            /\ rolling_crc' # rolling_crc =>
                   /\ clone_crc' = clone_crc
                   /\ <<clone_pos, clone_last>>' = <<clone_pos, clone_last>>
       ]_vars

\* C11 witness: with a window of 2 an engine cloned on the Rolling branch, its
\* cursor at slot 1, has pushed one byte more than its clone has; each holds
\* the checksum of its own last window, and the two checksums differ.
CloneIsIndependentWitness ==
    /\ clone_crc # None /\ mode = "engine" /\ W = 2
    /\ pos = 4 /\ clone_pos = 3
    /\ Engine.count = 4 /\ CloneEngine.count = 3 /\ CloneEngine.index = 1
    /\ last # None /\ clone_last # None /\ last # clone_last

\* C12: every call of next, on either adapter, comes back: whatever the window
\* size and whether or not the source has an end, a call that is inside its
\* loop leaves it, having returned a pair, an error or the end of the stream.
\* (A call that the overflow panic of count ends is counted as over, so that
\* only a call that runs for ever is held against the claim.)
NextCompletes == in_next ~> (~in_next \/ panicked # NoPanic)

\* With a window or an end a call of next does come back: when the window
\* size is at least 1 (within window_size items) or the source has an end.
NextCompletesGivenWindowOrEnd ==
    (in_next /\ (W >= 1 \/ ~cyclic)) ~> ~in_next

\* C13: for every window size w >= 1, when A is the open CRC of a window of w
\* bytes whose first byte is x, update_crc(A, b) XOR rolling_crc_table[x] is
\* the open CRC of the window without x at the front and with b at the back:
\* after every rolling step the accumulator is the open CRC of the current
\* window, and its closed form is the window's checksum, computed directly.
RollingStepIsRecompute ==
    mode = "table" =>
        /\ last = Some(OpenCrc(Window(OkVals(input), pos - W, W)))
        /\ finish_crc(last[1]) =
               calc_crc(Window(OkVals(input), pos - W, W), CRC_TABLE)
        /\ finish_crc(last[1]) = RefCrc32(Window(OkVals(input), pos - W, W))

\* C13 witness: the test's buffer for a window of 4 has been rolled to its
\* end, eight steps after the first window, and the accumulator has changed.
RollingStepIsRecomputeWitness ==
    /\ mode = "table" /\ W = 4
    /\ input = OkBytes(TestBuffer(4))
    /\ pos = 12
    /\ last # Some(OpenCrc(Window(OkVals(input), 0, 4)))
    /\ last = Some(OpenCrc(<<3, 34, 65, 96>>))

\* C14: the table make_crc_table builds from the polynomial 0xEDB88320 by
\* halving and doubling is, entry by entry, the table of the bit-serial
\* construction: entry i is i after 8 shift steps, each XORing the polynomial
\* in when the bit shifted out is 1.
FastTableIsClassicTable ==
    mode = "fast_crc_table" =>
        /\ \A i \in 0..(Len(out) - 1) :
               /\ out[i + 1] = last[1][i]
               /\ out[i + 1] = RefByte(<<0, 0, 0, 0>>, i)
        /\ Len(out) = pos
        /\ pos = 256 => [i \in Byte |-> out[i + 1]] = last[1]
        /\ last[1] = CRC_TABLE

\* C14 witness: both tables are complete; entry 1 is 0x77073096 and entry 255
\* is 0x2d02ef8d in each.
FastTableIsClassicTableWitness ==
    /\ mode = "fast_crc_table"
    /\ pos = 256
    /\ Len(out) = 256
    /\ out[2] = <<119, 7, 48, 150>> /\ last[1][1] = <<119, 7, 48, 150>>
    /\ out[256] = <<45, 2, 239, 141>> /\ last[1][255] = <<45, 2, 239, 141>>

Min(a, b) == IF a <= b THEN a ELSE b

\* C16: in every state of the engine the window buffer holds min(count,
\* window_size) bytes, count being the number of bytes pushed so far; with a
\* window size of 0 the buffer stays empty while count grows.
WindowLengthIsMin ==
    (rolling_crc # None /\ panicked = NoPanic) =>
        /\ Engine.count = Len(Pushed)
        /\ Len(Engine.bytes) = Min(Engine.count, W)
        /\ W = 0 => Engine.bytes = <<>>

\* C16 witness: five bytes pushed with a window of 3: the buffer holds 3.
WindowLengthIsMinWitness ==
    /\ rolling_crc # None /\ W = 3
    /\ Engine.count = 5 /\ Len(Pushed) = 5
    /\ Len(Engine.bytes) = 3

\* C17: in every state of the engine the open CRC is stored exactly when
\* count >= window_size and window_size > 0.
LastCrcPresentIff ==
    (rolling_crc # None /\ panicked = NoPanic) =>
        (Engine.last_crc # None <=> (Engine.count >= W /\ W > 0))

\* C17 witness: the push that filled a window of 3 has stored the open CRC.
LastCrcPresentIffWitness ==
    /\ rolling_crc # None /\ W = 3
    /\ Engine.count = 3
    /\ Engine.last_crc # None

\* C18 as stated: in every state of the engine 0 <= cursor < window_size.
CursorBelowWindowSize ==
    rolling_crc # None => (0 <= Engine.index /\ Engine.index < W)

\* C18, for the window sizes that have a slot: with window_size >= 1 the
\* cursor satisfies 0 <= cursor < window_size in every state of the engine;
\* with window_size = 0 the cursor is 0, which is window_size itself.
CursorInWindow ==
    (rolling_crc # None /\ panicked = NoPanic) =>
        /\ W >= 1 => (0 <= Engine.index /\ Engine.index < W)
        /\ W = 0 => Engine.index = 0

\* C18 witness: with a window of 3 and five bytes pushed the cursor is on the
\* last slot.
CursorInWindowWitness ==
    /\ rolling_crc # None /\ W = 3
    /\ Engine.count = 5
    /\ Engine.index = 2

\* The window buffer read circularly, all of it, from the slot `index`.
CircularFrom(bytes, index) ==
    [k \in 1..Len(bytes) |-> bytes[((index + k - 1) % Len(bytes)) + 1]]

\* A step that pushes a byte into an engine whose window is already full.
RollingPushStep ==
    /\ rolling_crc # None /\ rolling_crc' # None
    /\ rolling_crc' # rolling_crc
    /\ W >= 1 /\ Engine.count >= W

\* C19: with window_size >= 1 and count >= window_size, the buffer holds
\* window_size bytes, the slot at the cursor holds the oldest of them (the
\* byte pushed window_size pushes ago) and the buffer read circularly from
\* the cursor is the last window_size bytes in push order; a further push
\* writes the incoming byte over the slot at the cursor, leaves every other
\* slot alone and moves the cursor on by one modulo window_size.
CircularWindow ==
    /\ []((rolling_crc # None /\ W >= 1 /\ Engine.count >= W) =>
            /\ Len(Engine.bytes) = W
            /\ Engine.bytes[Engine.index + 1] = Pushed[Engine.count - W + 1]
            /\ CircularFrom(Engine.bytes, Engine.index) =
                   Window(Pushed, Engine.count - W, W))
    /\ [][RollingPushStep =>
            /\ Engine'.count = Engine.count + 1
            /\ Len(Engine'.bytes) = W
            /\ Engine'.bytes =
                   [Engine.bytes EXCEPT ![Engine.index + 1] = Pushed'[Len(Pushed')]]
            /\ Engine'.index = (Engine.index + 1) % W]_vars

\* C19 witness: "hello" pushed with a window of 3: the buffer is l o l, the
\* cursor on its last slot, which holds the oldest byte.
CircularWindowWitness ==
    /\ rolling_crc # None /\ W = 3
    /\ input = OkBytes(HelloWorld)
    /\ Engine.count = 5
    /\ Engine.bytes = <<108, 111, 108>>
    /\ Engine.index = 2

\* The checksum in what the last call returned: push returns it bare, the
\* checksum stream in a pair, the result stream in an Ok pair.
ReturnedCrc ==
    IF mode = "engine" THEN last[1]
    ELSE IF mode = "iter" THEN last[1][2]
    ELSE last[1].crc

\* C20: with count >= window_size >= 1, the stored open CRC XOR 0xFFFFFFFF is
\* the non-rolling checksum of the buffer read circularly from the cursor,
\* that is of the window_size bytes pushed last, and it is the checksum that
\* the push which stored it returned.
LastCrcIsOpenChecksum ==
    /\ []((rolling_crc # None /\ W >= 1 /\ Engine.count >= W) =>
            /\ Engine.last_crc # None
            /\ Xor32(Engine.last_crc[1], <<255, 255, 255, 255>>) =
                   checksum(CircularFrom(Engine.bytes, Engine.index))
            /\ Xor32(Engine.last_crc[1], <<255, 255, 255, 255>>) =
                   checksum(Window(Pushed, Engine.count - W, W))
            /\ mode = "engine" =>
                   last = Some(Xor32(Engine.last_crc[1], <<255, 255, 255, 255>>)))
    /\ [][(/\ rolling_crc' # None /\ rolling_crc' # rolling_crc
           /\ W >= 1 /\ Engine'.count >= W) =>
            /\ last' # None
            /\ ReturnedCrc' =
                   Xor32(Engine'.last_crc[1], <<255, 255, 255, 255>>)]_vars

\* C20 witness: the result stream has rolled a window of 2 over three bytes
\* and returned the closed form of the stored CRC.
LastCrcIsOpenChecksumWitness ==
    /\ rolling_crc # None /\ W = 2
    /\ mode = "iter_result"
    /\ Engine.count = 3 /\ Engine.index = 1
    /\ last # None /\ last[1].ok
    /\ last[1].crc = Xor32(Engine.last_crc[1], <<255, 255, 255, 255>>)
    /\ last[1].crc = checksum(CircularFrom(Engine.bytes, Engine.index))

\* A step that is one call of push by the engine's owner.
DirectPushStep ==
    /\ mode = "engine" /\ mode' = "engine"
    /\ rolling_crc # None /\ rolling_crc' # None
    /\ rolling_crc' # rolling_crc

\* C21 as stated: a Filling push, which is one that leaves count below
\* window_size or any push with window_size 0, appends the byte to the window
\* buffer and returns no checksum; a push returns a checksum exactly when
\* window_size >= 1 and count has reached window_size; once a push has
\* returned a checksum every later push returns one.
FillingPushAppends ==
    [][DirectPushStep =>
        /\ (Engine'.count < W \/ W = 0) =>
               /\ Engine'.bytes = Append(Engine.bytes, input[pos + 1].val)
               /\ last' = None
        /\ last' # None <=> (W >= 1 /\ Engine'.count >= W)
        /\ last # None => last' # None]_vars

\* C21, the window of size 0 apart: a push that leaves count below
\* window_size >= 1 appends the byte to the window buffer and returns no
\* checksum; a push with window_size 0 returns no checksum and leaves the
\* buffer empty; a push returns a checksum exactly when window_size >= 1 and
\* count has reached window_size; once a push has returned a checksum every
\* later push returns one.
FillingPush ==
    [][DirectPushStep =>
        /\ Engine'.count = Engine.count + 1
        /\ (W >= 1 /\ Engine'.count < W) =>
               /\ Engine'.bytes = Append(Engine.bytes, input[pos + 1].val)
               /\ last' = None
        /\ W = 0 =>
               /\ Engine.bytes = <<>> /\ Engine'.bytes = <<>>
               /\ last' = None
        /\ last' # None <=> (W >= 1 /\ Engine'.count >= W)
        /\ last # None => last' # None]_vars

\* C21 witness: two bytes of "hello world" pushed with a window of 3: both
\* were appended and the second push returned no checksum.
FillingPushWitness ==
    /\ mode = "engine" /\ rolling_crc # None /\ W = 3
    /\ input = OkBytes(HelloWorld)
    /\ Engine.count = 2
    /\ Engine.bytes = <<104, 101>>
    /\ last = None

\* The bytes the second engine has been pushed.
SecondPushed == OkVals(SubSeq(SecondInput, 1, clone_pos))

\* What the n-th push of an engine driven alone over `stream` returns: from
\* the window_size-th push on, the checksum of the last window_size bytes.
AloneReturns(stream, n) ==
    IF W >= 1 /\ n >= W
    THEN Some(checksum(Window(stream, n - W, W)))
    ELSE None

\* C22: no push writes the context: its window size and its rolling table
\* stay as RollingCRCContext::new made them; and two engines on that context,
\* their pushes interleaved in any order, each hold and return what they
\* would if pushed alone over their own bytes: a push on one leaves the other
\* and what its owner was last returned untouched.
SharedContextEnginesAlone ==
    /\ [](context # None =>
            /\ context[1] = RollingCRCContext_new(W)
            /\ rolling_crc # None =>
                   /\ Engine = EngineAfter(Pushed, Len(Pushed))
                   /\ pos > 0 => last = AloneReturns(Pushed, Len(Pushed))
            /\ clone_crc # None =>
                   /\ CloneEngine = EngineAfter(SecondPushed, Len(SecondPushed))
                   /\ clone_pos > 0 =>
                          clone_last = AloneReturns(SecondPushed, Len(SecondPushed)))
    /\ [][context # None => context' = context]_vars
    /\ [][(rolling_crc # None /\ clone_crc # None) =>
            /\ rolling_crc' # rolling_crc =>
                   clone_crc' = clone_crc /\ clone_last' = clone_last
            /\ clone_crc' # clone_crc =>
                   rolling_crc' = rolling_crc /\ last' = last]_vars

\* C22 witness: on a context of window size 2 over "hello world", one engine
\* has been pushed h e l and the other d l r o; each has just returned the
\* checksum of its own last two bytes.
SharedContextEnginesAloneWitness ==
    /\ context # None /\ W = 2
    /\ input = OkBytes(HelloWorld)
    /\ rolling_crc # None /\ clone_crc # None
    /\ pos = 3 /\ clone_pos = 4
    /\ last = Some(checksum(<<101, 108>>))
    /\ clone_last = Some(checksum(<<114, 111>>))
    /\ last # clone_last

\* The number of bytes among the source items lo .. hi.
OksIn(lo, hi) == Len(OkVals(SubSeq(input, lo, hi)))

\* The push of the source item k, by a call of next that begins in this state
\* and has met bytes only, yields a checksum.
YieldsAt(k) == W >= 1 /\ Engine.count + OksIn(pos + 1, k) >= W

\* C23: a call of next takes the items of its source one by one, pushing the
\* bytes, and returns at the first item that is an error or whose push yields
\* a checksum, or at the end of the source: every item it passed over was a
\* byte whose push yielded nothing, the item it stopped on gave what it
\* returned, and no item after that one was taken.  So on a fresh engine with
\* window_size >= 1 the first pair comes when exactly window_size bytes have
\* been taken, and each later pair one byte later.
NextIsLazy ==
    /\ [][(mode \in {"iter", "iter_result"} /\ mode' = mode) =>
            /\ pos <= pos' /\ pos' <= Len(input)
            /\ \A k \in (pos + 1)..(pos' - 1) : input[k].ok /\ ~YieldsAt(k)
            /\ Engine'.count = Engine.count + OksIn(pos + 1, pos')
            /\ pos' > pos =>
                   \/ /\ ~input[pos'].ok
                      /\ last' = Some(ErrOut(input[pos'].val))
                   \/ /\ input[pos'].ok /\ YieldsAt(pos')
                      /\ last' # None
                      /\ out' = Append(out, last'[1])
                      /\ mode = "iter" => last'[1][1] = Engine'.count - W
                      /\ mode = "iter_result" =>
                             last'[1].ok /\ last'[1].index = Engine'.count - W
                   \/ /\ input[pos'].ok /\ ~YieldsAt(pos')
                      /\ pos' = Len(input)
                      /\ last' = None
            /\ pos' = pos => (pos = Len(input) /\ last' = None)]_vars
    /\ []((mode = "iter" /\ start = 0 /\ W >= 1 /\ Len(out) >= 1) =>
            pos = W + Len(out) - 1)
    /\ []((mode = "iter_result" /\ start = 0 /\ W >= 1
              /\ last # None /\ last[1].ok) =>
            pos = W + Len(OkPairsOf(out)) - 1 + Len(ErrsOf(out)))

\* C23 witness: the stream of a fresh engine with a window of 3 over
\* "hello world" has yielded two pairs and has taken four bytes; the other
\* seven are still in the source.
NextIsLazyWitness ==
    /\ mode = "iter" /\ start = 0 /\ W = 3
    /\ input = OkBytes(HelloWorld)
    /\ Len(out) = 2 /\ out[2][1] = 1
    /\ pos = 4
    /\ Engine.count = 4

\* CRC_open of the byte x followed by w zero bytes, for the window sizes of
\* the exploration, and CRC_open of n zero bytes: the un-finalized fold of
\* update_crc from 0xFFFFFFFF.
OpenOfByteThenZeros ==
    [w \in WindowSizes \ {0} |->
        [x \in Byte |-> OpenCrc(<<x>> \o Zeros(w))] @@ <<>>] @@ <<>>
OpenOfZeros ==
    [n \in 1..(Max(MaxWindow, 11) + 1) |-> OpenCrc(Zeros(n))] @@ <<>>

UpdateIsXorHomomorphic ==
    mode = "update_crc" => last[1][3] = Xor32(last[1][1], last[1][2])

\* C25 with the byte's own term: for all accumulators a, b and every byte c,
\* update(a XOR b, c) = update(a, c) XOR update(b, c) XOR table[c], and
\* table[c] is zero for c = 0 only: the rule is XOR-homomorphic in the
\* accumulator for the byte 0 and for no other byte.
UpdateIsXorAffine ==
    mode = "update_crc" =>
        /\ last[1][3] = Xor32(Xor32(last[1][1], last[1][2]),
                              CRC_TABLE[input[1].val])
        /\ last[1][3] = Xor32(last[1][1], last[1][2]) <=> input[1].val = 0
        /\ \A c \in Byte : CRC_TABLE[c] = <<0, 0, 0, 0>> <=> c = 0

\* C25 witness: a = 0xffffffff, b = 0x0000006c, c = 'l': the update of
\* a XOR b is not the XOR of the two updates.
UpdateIsXorAffineWitness ==
    /\ mode = "update_crc"
    /\ input[1].val = 108
    /\ out = <<<<255, 255, 255, 255>>, <<0, 0, 0, 108>>>>
    /\ last[1][3] # Xor32(last[1][1], last[1][2])
=============================================================================
